---- MODULE Spec2Model ----
(***************************************************************************)
(* State-machine model of the handle-keyed EventManager                    *)
(* (src/src/event-manager.ts): a map from event target to a pair           *)
(* [DisposableStack, Map<symbol, EarlyEventDispose>], a one-shot disposed  *)
(* flag, and the operations register, deregister and [Symbol.dispose].     *)
(*                                                                         *)
(* The event target is an external collaborator.  It is modelled as the    *)
(* set of (event name, callback) pairs currently attached to it; each      *)
(* addEventListener / removeEventListener call may throw, which is an      *)
(* input of the operation that makes the call.  The options argument is    *)
(* only forwarded to addEventListener and takes no part in the             *)
(* bookkeeping, so it is not represented.                                  *)
(***************************************************************************)
EXTENDS Integers, Sequences, FiniteSets, TLC

\* Bound: how many handles the registry may mint in one behaviour.
MaxSymbols == 3

Targets == {"t1", "t2"}
EventNames == {"click"}
Callbacks == {"f", "g"}

\* Handles a caller may pass to deregister (issued or not).
Symbols == 1..MaxSymbols

\* The (target, event name, callback) triples a removeEventListener call can name.
Removals == Targets \X EventNames \X Callbacks

VARIABLES
    disposed,     \* #disposed
    events,       \* #events, as the sequence of its entries in insertion order
    attached,     \* per target: the (event name, callback) pairs attached to it
    symbolCount,  \* how many symbols Symbol() has created
    issued,       \* history: the handles register has returned, in order
    released,     \* history: the handles removed from a ledger
    deregistered, \* history: the bindings a deregister call released
    last          \* the last operation: its arguments, outcome and target calls

\* The registry keyed by event name and callback (class EventManager of
\* src/unnamed/part_000), modelled beside the handle-keyed one.
VARIABLES
    legacyEvents,   \* #events: entries [target, events], events a sequence of
                    \* entries [eventName, callbacks], both in insertion order
    legacyAttached, \* per target: the (event name, callback) pairs attached
    legacyLast      \* the last operation of the legacy registry

legacyVars == <<legacyEvents, legacyAttached, legacyLast>>

vars == <<disposed, events, attached, symbolCount, issued, released,
          deregistered, last, legacyVars>>

----------------------------------------------------------------------------
\* Sequence helpers.

RECURSIVE Reverse(_)
Reverse(s) == IF s = <<>> THEN <<>> ELSE Append(Reverse(Tail(s)), Head(s))

Range(s) == {s[i] : i \in DOMAIN s}

----------------------------------------------------------------------------
\* Map<EventTarget, [DisposableStack, Map<symbol, EarlyEventDispose>]>.
\* An entry is [target, stack, map]; the sequence keeps Map's insertion order.

IndexOf(ev, t) ==
    IF \E i \in DOMAIN ev : ev[i].target = t
    THEN CHOOSE i \in DOMAIN ev : ev[i].target = t
    ELSE 0

MapHas(ev, t) == IndexOf(ev, t) # 0

MapGet(ev, t) == ev[IndexOf(ev, t)]

\* Map.prototype.set: an existing key keeps its position, a new key goes last.
MapSet(ev, t, stack, map) ==
    LET entry == [target |-> t, stack |-> stack, map |-> map]
    IN IF MapHas(ev, t)
       THEN [ev EXCEPT ![IndexOf(ev, t)] = entry]
       ELSE Append(ev, entry)

\* Mutant of MapDelete: the whole map is cleared instead of one key deleted.
MapDeleteAll(ev, t) == <<>>

\* Map.prototype.delete.
MapDelete(ev, t) == SelectSeq(ev, LAMBDA x : x.target # t)

\* The handles in the ledger of target t (empty when t has no entry).
HandlesOf(ev, t) == IF MapHas(ev, t) THEN DOMAIN MapGet(ev, t).map ELSE {}

LiveHandles(ev) == UNION {HandlesOf(ev, t) : t \in Targets}

----------------------------------------------------------------------------
\* DisposableStack: [disposed, deferred], deferred in the order of defer().

NewStack == [disposed |-> FALSE, deferred |-> <<>>]

\* The object a stack becomes once move() or dispose has run on it.
DisposedStack == [disposed |-> TRUE, deferred |-> <<>>]

\* DisposableStack.prototype.move: throws on a disposed stack; otherwise the
\* resources go to a new stack and the receiver is left disposed.
StackMove(s) ==
    IF s.disposed
    THEN [threw |-> TRUE, moved |-> s, rest |-> s]
    ELSE [threw |-> FALSE,
          moved |-> [disposed |-> FALSE, deferred |-> s.deferred],
          rest  |-> DisposedStack]

\* One call a target receives.  id names the handle whose release action made
\* the call (0 for addEventListener); it identifies the binding in the
\* properties and is not read by the operations.
Call(kind, t, e, cb, id, ok) ==
    [kind |-> kind, target |-> t, eventName |-> e, callback |-> cb,
     id |-> id, ok |-> ok]

\* #callbackDispose: removeEventListener inside try/catch.  failing holds the
\* (target, event name, callback) triples whose removal throws.
CallbackDisposeCall(d, failing) ==
    Call("remove", d.target, d.eventName, d.callback, d.id,
         <<d.target, d.eventName, d.callback>> \notin failing)

CallbackDisposeAttached(att, d, failing) ==
    IF <<d.target, d.eventName, d.callback>> \in failing
    THEN att
    ELSE [att EXCEPT ![d.target] = @ \ {<<d.eventName, d.callback>>}]

RECURSIVE RunDeferred(_, _, _)
\* Runs the deferred callbacks ds in the order given; returns the attachments.
RunDeferred(att, ds, failing) ==
    IF ds = <<>> THEN att
    ELSE RunDeferred(CallbackDisposeAttached(att, Head(ds), failing),
                     Tail(ds), failing)

\* DisposableStack.prototype[Symbol.dispose]: nothing on a disposed stack,
\* otherwise the deferred callbacks run last-in first-out.
StackDisposeOrder(s) == IF s.disposed THEN <<>> ELSE Reverse(s.deferred)

\* The deferred callbacks bulk disposal runs: entry by entry in the map's
\* iteration order, each entry's stack disposed in turn.
RECURSIVE DisposeOrder(_)
DisposeOrder(ev) ==
    IF ev = <<>> THEN <<>>
    ELSE StackDisposeOrder(Head(ev).stack) \o DisposeOrder(Tail(ev))

----------------------------------------------------------------------------
\* Map<symbol, EarlyEventDispose>: a function from handle to the binding its
\* closure captured.

EmptyMap == [s \in {} |-> s]

SymbolSet(m, sym, d) == [s \in DOMAIN m \cup {sym} |-> IF s = sym THEN d ELSE m[s]]

SymbolDelete(m, sym) == [s \in DOMAIN m \ {sym} |-> m[s]]

\* What the closures of one registration capture.
Binding(t, e, cb, sym) == [target |-> t, eventName |-> e, callback |-> cb, id |-> sym]

\* Mutant of MintSymbol: a registry-keyed symbol (Symbol.for with a fixed key),
\* the same value at every call.
MintSymbolKeyed(count) == 1

\* Symbol(): a value distinct from every symbol created before.
MintSymbol(count) == count + 1

----------------------------------------------------------------------------
\* register(target, eventName, callback, options).  addFails: addEventListener
\* throws.  The result holds the new registry state, the returned symbol (0
\* when the call threw), whether it threw, and the calls the target received.

RegisterResult(ev, att, count, t, e, cb, addFails) ==
    LET has   == MapHas(ev, t)
        mv    == IF has THEN StackMove(MapGet(ev, t).stack) ELSE StackMove(NewStack)
        map0  == IF has THEN MapGet(ev, t).map ELSE EmptyMap
        \* entry[0].move() leaves the stored stack object disposed
        ev1   == IF has THEN MapSet(ev, t, mv.rest, map0) ELSE ev
        sym   == MintSymbol(count)
        d     == Binding(t, e, cb, sym)
        stack == [mv.moved EXCEPT !.deferred = Append(@, d)]
    IN IF mv.threw
       THEN [events |-> ev, attached |-> att, symbolCount |-> count,
             symbol |-> 0, threw |-> TRUE, calls |-> <<>>]
       ELSE IF addFails
       THEN [events |-> ev1, attached |-> att, symbolCount |-> count,
             symbol |-> 0, threw |-> TRUE,
             calls |-> <<Call("add", t, e, cb, 0, FALSE)>>]
       ELSE [events |-> MapSet(ev1, t, StackMove(stack).moved, SymbolSet(map0, sym, d)),
             attached |-> [att EXCEPT ![t] = @ \cup {<<e, cb>>}],
             symbolCount |-> count + 1,
             symbol |-> sym, threw |-> FALSE,
             calls |-> <<Call("add", t, e, cb, 0, TRUE)>>]

\* Mutant of EarlyDispose: the ledger is stored back even when its handle map
\* has become empty.
EarlyDisposeKeepsLedger(ev, att, d, failing) ==
    LET att1 == CallbackDisposeAttached(att, d, failing)
        call == CallbackDisposeCall(d, failing)
        t    == d.target
        mv   == StackMove(MapGet(ev, t).stack)
    IN IF mv.threw
       THEN [events |-> ev, attached |-> att1, threw |-> TRUE,
             calls |-> <<call>>, removed |-> {}]
       ELSE [events |-> MapSet(ev, t, StackMove(mv.moved).moved,
                               SymbolDelete(MapGet(ev, t).map, d.id)),
             attached |-> att1, threw |-> FALSE,
             calls |-> <<call>>, removed |-> {d.id}]

\* The early-dispose closure stored under a handle: detach, then take the
\* handle out of the ledger of the captured target.
EarlyDispose(ev, att, d, failing) ==
    LET att1 == CallbackDisposeAttached(att, d, failing)
        call == CallbackDisposeCall(d, failing)
        t    == d.target
    IN IF ~MapHas(ev, t)
       THEN [events |-> ev, attached |-> att1, threw |-> FALSE,
             calls |-> <<call>>, removed |-> {}]
       ELSE LET mv   == StackMove(MapGet(ev, t).stack)
                map1 == SymbolDelete(MapGet(ev, t).map, d.id)
            IN IF mv.threw
               THEN [events |-> ev, attached |-> att1, threw |-> TRUE,
                     calls |-> <<call>>, removed |-> {}]
               ELSE [events |-> IF DOMAIN map1 = {}
                                THEN MapDelete(ev, t)
                                ELSE MapSet(ev, t, StackMove(mv.moved).moved, map1),
                     attached |-> att1, threw |-> FALSE,
                     calls |-> <<call>>, removed |-> {d.id}]

\* Mutant of DeregisterResult: the strict policy, which throws when the target
\* or the handle is not found.
DeregisterResultStrict(ev, att, t, sym, failing) ==
    IF sym \notin HandlesOf(ev, t)
    THEN [events |-> ev, attached |-> att, threw |-> TRUE,
          calls |-> <<>>, removed |-> {}]
    ELSE EarlyDispose(ev, att, MapGet(ev, t).map[sym], failing)

\* deregister(target, symbol).
DeregisterResult(ev, att, t, sym, failing) ==
    IF ~MapHas(ev, t)
    THEN [events |-> ev, attached |-> att, threw |-> FALSE,
          calls |-> <<>>, removed |-> {}]
    ELSE IF sym \notin DOMAIN MapGet(ev, t).map
    THEN [events |-> ev, attached |-> att, threw |-> FALSE,
          calls |-> <<>>, removed |-> {}]
    ELSE EarlyDispose(ev, att, MapGet(ev, t).map[sym], failing)

\* Mutant of DisposeAllResult: a disposal that walks every release sequence
\* without consuming it, with neither the one-shot flag nor the final clear.
DisposeAllResultReplay(disp, ev, att, failing) ==
    LET RECURSIVE Walk(_)
        Walk(es) == IF es = <<>> THEN <<>>
                    ELSE Reverse(Head(es).stack.deferred) \o Walk(Tail(es))
        order == Walk(ev)
    IN [disposed |-> disp, events |-> ev,
        attached |-> RunDeferred(att, order, failing),
        threw |-> FALSE,
        calls |-> [i \in DOMAIN order |-> CallbackDisposeCall(order[i], failing)],
        removed |-> {}]

\* [Symbol.dispose]().
DisposeAllResult(disp, ev, att, failing) ==
    IF disp
    THEN [disposed |-> disp, events |-> ev, attached |-> att,
          threw |-> FALSE, calls |-> <<>>, removed |-> {}]
    ELSE LET order == DisposeOrder(ev)
         IN [disposed |-> TRUE, events |-> <<>>,
             attached |-> RunDeferred(att, order, failing),
             threw |-> FALSE,
             calls |-> [i \in DOMAIN order |-> CallbackDisposeCall(order[i], failing)],
             removed |-> LiveHandles(ev)]

----------------------------------------------------------------------------
\* The state machine.

Op(op, t, sym, threw, calls) ==
    [op |-> op, target |-> t, symbol |-> sym, threw |-> threw, calls |-> calls]

LegacyOp(op, t, e, cb, threw, calls) ==
    [op |-> op, target |-> t, eventName |-> e, callback |-> cb,
     threw |-> threw, calls |-> calls]

LegacyInit ==
    /\ legacyEvents = <<>>
    /\ legacyAttached = [t \in Targets |-> {}]
    /\ legacyLast = LegacyOp("init", "none", "none", "none", FALSE, <<>>)

Init ==
    /\ LegacyInit
    /\ disposed = FALSE
    /\ events = <<>>
    /\ attached = [t \in Targets |-> {}]
    /\ symbolCount = 0
    /\ issued = <<>>
    /\ released = {}
    /\ deregistered = {}
    /\ last = Op("init", "none", 0, FALSE, <<>>)

Register(t, e, cb, addFails) ==
    /\ symbolCount < MaxSymbols
    \* Targets and callbacks are interchangeable names: the first registration
    \* is taken to be on t1 with f, every other behaviour being a renaming.
    /\ symbolCount = 0 => (t = "t1" /\ cb = "f")
    /\ LET r == RegisterResult(events, attached, symbolCount, t, e, cb, addFails)
       IN /\ events' = r.events
          /\ attached' = r.attached
          /\ symbolCount' = r.symbolCount
          /\ issued' = IF r.threw THEN issued ELSE Append(issued, r.symbol)
          /\ last' = Op("register", t, r.symbol, r.threw, r.calls)
    /\ UNCHANGED <<disposed, released, deregistered, legacyVars>>

Deregister(t, sym, failing) ==
    /\ LET r == DeregisterResult(events, attached, t, sym, failing)
       IN /\ events' = r.events
          /\ attached' = r.attached
          /\ released' = released \cup r.removed
          /\ deregistered' = deregistered
                 \cup {[id |-> h, target |-> t] : h \in r.removed}
          /\ last' = Op("deregister", t, sym, r.threw, r.calls)
    /\ UNCHANGED <<disposed, symbolCount, issued, legacyVars>>

DisposeAll(failing) ==
    /\ LET r == DisposeAllResult(disposed, events, attached, failing)
       IN /\ disposed' = r.disposed
          /\ events' = r.events
          /\ attached' = r.attached
          /\ released' = released \cup r.removed
          /\ last' = Op("disposeAll", "none", 0, r.threw, r.calls)
    /\ UNCHANGED <<symbolCount, issued, deregistered, legacyVars>>

\* The removeEventListener calls an operation can make in the current state:
\* only their failure can be observed, so only they are drawn as failing.
Triple(d) == <<d.target, d.eventName, d.callback>>

DeregisterRemovals(t, sym) ==
    IF sym \in HandlesOf(events, t) THEN {Triple(MapGet(events, t).map[sym])} ELSE {}

DisposeRemovals ==
    IF disposed THEN {} ELSE {Triple(d) : d \in Range(DisposeOrder(events))}

Next ==
    \/ \E t \in Targets, e \in EventNames, cb \in Callbacks, addFails \in BOOLEAN :
           Register(t, e, cb, addFails)
    \/ \E t \in Targets, sym \in Symbols :
           \E failing \in SUBSET DeregisterRemovals(t, sym) : Deregister(t, sym, failing)
    \/ \E failing \in SUBSET DisposeRemovals : DisposeAll(failing)

Spec == Init /\ [][Next]_vars

----------------------------------------------------------------------------
\* The legacy registry: Map<EventTarget, Map<string, Array<listener>>>.

\* Bound: how many callbacks the legacy registry may hold at once.
MaxLegacyCallbacks == 2

LegacyEventNames == {"click", "keyup"}

LegacyTargetIndex(le, t) ==
    IF \E i \in DOMAIN le : le[i].target = t
    THEN CHOOSE i \in DOMAIN le : le[i].target = t
    ELSE 0

\* this.#events.get(target): the target's entries, <<>> standing for a new Map.
LegacyTargetEvents(le, t) ==
    IF LegacyTargetIndex(le, t) = 0 THEN <<>> ELSE le[LegacyTargetIndex(le, t)].events

LegacyEventIndex(te, e) ==
    IF \E i \in DOMAIN te : te[i].eventName = e
    THEN CHOOSE i \in DOMAIN te : te[i].eventName = e
    ELSE 0

\* targetEvents.get(eventName): the array, <<>> standing for a new one.
LegacyCallbacks(le, t, e) ==
    LET te == LegacyTargetEvents(le, t)
    IN IF LegacyEventIndex(te, e) = 0 THEN <<>> ELSE te[LegacyEventIndex(te, e)].callbacks

\* targetEvents.set(eventName, events) followed by this.#events.set(target, targetEvents).
LegacySet(le, t, e, cbs) ==
    LET te    == LegacyTargetEvents(le, t)
        entry == [eventName |-> e, callbacks |-> cbs]
        te1   == IF LegacyEventIndex(te, e) = 0
                 THEN Append(te, entry)
                 ELSE [te EXCEPT ![LegacyEventIndex(te, e)] = entry]
    IN IF LegacyTargetIndex(le, t) = 0
       THEN Append(le, [target |-> t, events |-> te1])
       ELSE [le EXCEPT ![LegacyTargetIndex(le, t)].events = te1]

\* targetEvents.delete(eventName), then this.#events.delete(target) when the
\* target's map has become empty.
LegacyDelete(le, t, e) ==
    LET te1 == SelectSeq(LegacyTargetEvents(le, t), LAMBDA x : x.eventName # e)
    IN IF te1 = <<>>
       THEN SelectSeq(le, LAMBDA x : x.target # t)
       ELSE [le EXCEPT ![LegacyTargetIndex(le, t)].events = te1]

\* events.findIndex(event => event === callback), 1-based; 0 for -1.
FindIndex(cbs, cb) ==
    IF \E i \in DOMAIN cbs : cbs[i] = cb
    THEN CHOOSE i \in DOMAIN cbs : cbs[i] = cb /\ \A j \in 1..(i - 1) : cbs[j] # cb
    ELSE 0

\* events.splice(index, 1), index 1-based.
Splice(cbs, i) == SubSeq(cbs, 1, i - 1) \o SubSeq(cbs, i + 1, Len(cbs))

\* How many callbacks the registry holds.
RECURSIVE LegacySize(_)
LegacySize(le) ==
    IF le = <<>> THEN 0
    ELSE LET RECURSIVE Count(_)
             Count(te) == IF te = <<>> THEN 0
                          ELSE Len(Head(te).callbacks) + Count(Tail(te))
         IN Count(Head(le).events) + LegacySize(Tail(le))

\* register(target, eventName, callback, options) of the legacy class.
LegacyRegisterResult(le, att, t, e, cb, addFails) ==
    IF addFails
    THEN [events |-> le, attached |-> att, threw |-> TRUE,
          calls |-> <<Call("add", t, e, cb, 0, FALSE)>>]
    ELSE [events |-> LegacySet(le, t, e, Append(LegacyCallbacks(le, t, e), cb)),
          attached |-> [att EXCEPT ![t] = @ \cup {<<e, cb>>}],
          threw |-> FALSE,
          calls |-> <<Call("add", t, e, cb, 0, TRUE)>>]

\* Mutant of LegacyDeregisterResult: the eventIndex === -1 test is missing, so
\* a callback that is not in the list is detached and splice(-1, 1) takes the
\* last element out.
LegacyDeregisterResultNoIndexTest(le, att, t, e, cb, failing) ==
    LET cbs == LegacyCallbacks(le, t, e)
        i   == IF FindIndex(cbs, cb) = 0 THEN Len(cbs) ELSE FindIndex(cbs, cb)
        ok  == <<t, e, cb>> \notin failing
    IN IF cbs = <<>>
       THEN [events |-> le, attached |-> att, threw |-> TRUE, calls |-> <<>>]
       ELSE IF ~ok
       THEN [events |-> le, attached |-> att, threw |-> TRUE,
             calls |-> <<Call("remove", t, e, cb, 0, FALSE)>>]
       ELSE [events |-> IF Splice(cbs, i) = <<>>
                        THEN LegacyDelete(le, t, e)
                        ELSE LegacySet(le, t, e, Splice(cbs, i)),
             attached |-> [att EXCEPT ![t] = @ \ {<<e, cb>>}],
             threw |-> FALSE,
             calls |-> <<Call("remove", t, e, cb, 0, TRUE)>>]

\* deregister(target, eventName, callback) of the legacy class.  failing holds
\* the (target, event name, callback) triples whose removal throws.
LegacyDeregisterResult(le, att, t, e, cb, failing) ==
    LET cbs == LegacyCallbacks(le, t, e)
        i   == FindIndex(cbs, cb)
        ok  == <<t, e, cb>> \notin failing
    IN IF LegacyTargetIndex(le, t) = 0
       THEN [events |-> le, attached |-> att, threw |-> TRUE, calls |-> <<>>]
       ELSE IF LegacyEventIndex(LegacyTargetEvents(le, t), e) = 0
       THEN [events |-> le, attached |-> att, threw |-> TRUE, calls |-> <<>>]
       ELSE IF i = 0
       THEN [events |-> le, attached |-> att, threw |-> TRUE, calls |-> <<>>]
       ELSE IF ~ok
       THEN [events |-> le, attached |-> att, threw |-> TRUE,
             calls |-> <<Call("remove", t, e, cb, 0, FALSE)>>]
       ELSE [events |-> IF Splice(cbs, i) = <<>>
                        THEN LegacyDelete(le, t, e)
                        ELSE LegacySet(le, t, e, Splice(cbs, i)),
             attached |-> [att EXCEPT ![t] = @ \ {<<e, cb>>}],
             threw |-> FALSE,
             calls |-> <<Call("remove", t, e, cb, 0, TRUE)>>]

\* for (const event of events): the array iterator reads the live array at
\* index i (1-based) and stops once i is past its current length; each
\* element is passed to deregister, whose error is caught and logged.
RECURSIVE LegacyDisposeCallbacks(_, _, _, _, _)
LegacyDisposeCallbacks(st, t, e, i, failing) ==
    LET cbs == LegacyCallbacks(st.events, t, e)
    IN IF i > Len(cbs) THEN st
       ELSE LET r == LegacyDeregisterResult(st.events, st.attached, t, e, cbs[i], failing)
            IN LegacyDisposeCallbacks(
                   [events |-> r.events, attached |-> r.attached,
                    calls |-> st.calls \o r.calls],
                   t, e, i + 1, failing)

\* for (const [eventName, events] of targetEvents.entries()), names being the
\* keys still to visit.
RECURSIVE LegacyDisposeNames(_, _, _, _)
LegacyDisposeNames(st, t, names, failing) ==
    IF names = <<>> THEN st
    ELSE LegacyDisposeNames(LegacyDisposeCallbacks(st, t, Head(names), 1, failing),
                            t, Tail(names), failing)

\* for (const [target, targetEvents] of this.#events.entries()), targets being
\* the keys still to visit.
RECURSIVE LegacyDisposeTargets(_, _, _)
LegacyDisposeTargets(st, targets, failing) ==
    IF targets = <<>> THEN st
    ELSE LET te    == LegacyTargetEvents(st.events, Head(targets))
             names == [i \in DOMAIN te |-> te[i].eventName]
         IN LegacyDisposeTargets(
                LegacyDisposeNames(st, Head(targets), names, failing),
                Tail(targets), failing)

\* [Symbol.dispose]() of the legacy class.
LegacyDisposeResult(le, att, failing) ==
    LegacyDisposeTargets([events |-> le, attached |-> att, calls |-> <<>>],
                         [i \in DOMAIN le |-> le[i].target], failing)

mainVars == <<disposed, events, attached, symbolCount, issued, released,
              deregistered, last>>

LegacyRegister(t, e, cb, addFails) ==
    /\ LegacySize(legacyEvents) < MaxLegacyCallbacks
    /\ LET r == LegacyRegisterResult(legacyEvents, legacyAttached, t, e, cb, addFails)
       IN /\ legacyEvents' = r.events
          /\ legacyAttached' = r.attached
          /\ legacyLast' = LegacyOp("register", t, e, cb, r.threw, r.calls)
    /\ UNCHANGED mainVars

LegacyDeregister(t, e, cb, failing) ==
    /\ LET r == LegacyDeregisterResult(legacyEvents, legacyAttached, t, e, cb, failing)
       IN /\ legacyEvents' = r.events
          /\ legacyAttached' = r.attached
          /\ legacyLast' = LegacyOp("deregister", t, e, cb, r.threw, r.calls)
    /\ UNCHANGED mainVars

LegacyDispose(failing) ==
    /\ LET r == LegacyDisposeResult(legacyEvents, legacyAttached, failing)
       IN /\ legacyEvents' = r.events
          /\ legacyAttached' = r.attached
          /\ legacyLast' = LegacyOp("dispose", "none", "none", "none", FALSE, r.calls)
    /\ UNCHANGED mainVars

\* The triples the legacy registry holds: only their removal can be attempted.
LegacyRemovals ==
    {<<t, e, cb>> \in Targets \X LegacyEventNames \X Callbacks :
        FindIndex(LegacyCallbacks(legacyEvents, t, e), cb) # 0}

LegacyNext ==
    \/ \E t \in Targets, e \in LegacyEventNames, cb \in Callbacks, addFails \in BOOLEAN :
           LegacyRegister(t, e, cb, addFails)
    \/ \E t \in Targets, e \in LegacyEventNames, cb \in Callbacks :
           \E failing \in SUBSET (LegacyRemovals \cap {<<t, e, cb>>}) :
               LegacyDeregister(t, e, cb, failing)
    \/ \E failing \in SUBSET LegacyRemovals : LegacyDispose(failing)

LegacySpec == Init /\ [][LegacyNext]_vars

----------------------------------------------------------------------------
\* Vocabulary of the properties.

\* The removeEventListener calls of a call log made on target t.
DetachCalls(calls, t) ==
    SelectSeq(calls, LAMBDA c : c.kind = "remove" /\ c.target = t)

\* The handles whose release actions made the calls, in call order.
Ids(calls) == [i \in DOMAIN calls |-> calls[i].id]

\* A sequence restricted to the elements in S.
Only(s, S) == SelectSeq(s, LAMBDA x : x \in S)

\* The elements of a finite set of handles, largest first.
RECURSIVE Descending(_)
Descending(S) ==
    IF S = {} THEN <<>>
    ELSE LET m == CHOOSE x \in S : \A y \in S : y <= x
         IN <<m>> \o Descending(S \ {m})

\* The step is a call of the named operation (last records every call).
IsCall(op) == last'.op = op

\* C1: a disposeAll detaches every still-live listener of each target exactly
\* once, the detach calls on a target coming in reverse order of registration
\* (handles are minted in registration order, so largest handle first).
C1_DisposeDetachesLiveInReverse ==
    [][IsCall("disposeAll") =>
          \A t \in Targets :
              Only(Ids(DetachCalls(last'.calls, t)), HandlesOf(events, t))
                  = Descending(HandlesOf(events, t))]_vars

\* C2: a binding released through deregister receives no detach call from a
\* later disposeAll.
C2_NoDetachOfReleased ==
    [][IsCall("disposeAll") =>
          \A i \in DOMAIN last'.calls : last'.calls[i].id \notin released]_vars

\* C3: a register whose addEventListener throws reports the failure and leaves
\* the registry exactly as it was.
C3_FailedRegisterKeepsRegistry ==
    [][(IsCall("register")
            /\ \E i \in DOMAIN last'.calls :
                   last'.calls[i].kind = "add" /\ ~last'.calls[i].ok)
        => (last'.threw /\ events' = events /\ issued' = issued
                /\ attached' = attached)]_vars

\* C4: deregister never throws, and a handle that was live is out of the
\* ledger afterwards even when its detach failed.
C4_DeregisterNeverThrows ==
    [][IsCall("deregister") =>
          (~last'.threw
             /\ (last'.symbol \in HandlesOf(events, last'.target)
                   => last'.symbol \notin LiveHandles(events')))]_vars

C6_DisposeAllIdempotent ==
    last.op = "disposeAll" =>
        \A failing \in SUBSET Removals :
            LET r == DisposeAllResult(disposed, events, attached, failing)
            IN /\ r.calls = <<>>
               /\ ~r.threw
               /\ r.disposed = disposed
               /\ r.events = events
               /\ r.attached = attached
               /\ r.removed \subseteq released

\* C6 witness: a disposeAll that detached listeners of both targets.
C6_Witness ==
    /\ last.op = "disposeAll"
    /\ \A t \in Targets : DetachCalls(last.calls, t) # <<>>

\* C7: when disposeAll returns, the registry holds no ledger and no handle.
C7_EmptyAfterDisposeAll ==
    last.op = "disposeAll" => (events = <<>> /\ LiveHandles(events) = {})

\* C8: when a detach fails during disposeAll, disposeAll does not throw, ends
\* with the registry empty, and has attempted the detach of every binding
\* that was live in any ledger.
C8_DisposeAllBestEffort ==
    [][(IsCall("disposeAll")
            /\ \E i \in DOMAIN last'.calls : ~last'.calls[i].ok)
        => (~last'.threw
              /\ events' = <<>>
              /\ LiveHandles(events) \subseteq Range(Ids(last'.calls)))]_vars

\* C9: deregister with a handle live in the target's ledger makes exactly one
\* detach call, that binding's; removes exactly that handle; deletes the
\* ledger if and only if it has become empty; and keeps every other handle.
C9_DeregisterLiveHandle ==
    [][(IsCall("deregister")
            /\ last'.symbol \in HandlesOf(events, last'.target))
        => LET t == last'.target
               h == last'.symbol
           IN /\ Ids(last'.calls) = <<h>>
              /\ HandlesOf(events', t) = HandlesOf(events, t) \ {h}
              /\ MapHas(events', t) <=> (HandlesOf(events, t) # {h})]_vars

\* C10: no two register calls return the same handle, and a released handle
\* never identifies a live binding in any ledger.
C10_HandlesNeverReused ==
    /\ \A i, j \in DOMAIN issued : i # j => issued[i] # issued[j]
    /\ released \cap LiveHandles(events) = {}

\* C10 witness: a register returned a handle after another handle had been
\* released by deregister and a further one by disposeAll.
C10_Witness ==
    /\ last.op = "register"
    /\ ~last.threw
    /\ disposed
    /\ Cardinality(released) >= 2
    /\ LiveHandles(events) # {}

\* C13: in every ledger the release sequence and the handle map describe the
\* same bindings; stated here by the half that deregister decides: the
\* release sequence never holds a release action for a binding whose handle
\* is no longer in the handle map.
C13_SequenceMatchesHandleMap ==
    \A i \in DOMAIN events :
        {d.id : d \in Range(events[i].stack.deferred)} \subseteq DOMAIN events[i].map

\* C14: a target has a ledger exactly when a handle issued for it is live: no
\* stored ledger has an empty handle map, every handle of a ledger was issued
\* for that ledger's target, no handle is in two ledgers, and the handles in
\* the ledgers are the issued handles that have not been released.
C14_LedgerIffLiveHandle ==
    /\ \A i \in DOMAIN events : DOMAIN events[i].map # {}
    /\ \A i \in DOMAIN events : \A h \in DOMAIN events[i].map :
           /\ events[i].map[h].target = events[i].target
           /\ events[i].map[h].id = h
    /\ \A i, j \in DOMAIN events :
           i # j => /\ events[i].target # events[j].target
                    /\ DOMAIN events[i].map \cap DOMAIN events[j].map = {}
    /\ LiveHandles(events) = Range(issued) \ released

\* C14 witness: both targets have a ledger, and that of t1, the target of the
\* first registration, comes second in the map: it was deleted when its last
\* handle was deregistered and created again by a later register.
C14_Witness ==
    /\ Len(events) = 2
    /\ events[1].target = "t2"
    /\ released # {}
    /\ ~disposed

\* C16: a register or deregister call on one target leaves the ledger and the
\* attached listeners of every other target unchanged.
C16_TargetsIndependent ==
    [][(IsCall("register") \/ IsCall("deregister")) =>
          \A t \in Targets \ {last'.target} :
              /\ attached'[t] = attached[t]
              /\ MapHas(events', t) <=> MapHas(events, t)
              /\ MapHas(events, t) => MapGet(events', t) = MapGet(events, t)]_vars

\* C16 witness: a deregister released the last handle of its target, whose
\* ledger was deleted, while the other target keeps its ledger.
C16_Witness ==
    /\ last.op = "deregister"
    /\ last.symbol \in released
    /\ ~MapHas(events, last.target)
    /\ events # <<>>

\* C17: whenever the disposed flag is set, the target map holds no ledger.
C17_DisposedIsEmpty == disposed => events = <<>>

\* C18: the listener of every handle in a ledger is attached to its target.
C18_LiveHandleIsAttached ==
    \A i \in DOMAIN events : \A h \in DOMAIN events[i].map :
        LET d == events[i].map[h]
        IN <<d.eventName, d.callback>> \in attached[events[i].target]

\* C15: a target all of whose bindings were individually deregistered (it
\* has none left in a ledger and deregister released some) receives no detach
\* call from disposeAll, and disposeAll raises no error.
C15_NoDetachAfterDeregisterAll ==
    [][IsCall("disposeAll") =>
          \A t \in Targets :
              (HandlesOf(events, t) = {} /\ \E d \in deregistered : d.target = t)
                  => (DetachCalls(last'.calls, t) = <<>> /\ ~last'.threw)]_vars

\* C15 witness: a disposeAll that detached listeners made no call on a target
\* on which bindings had been registered, every one of them released by
\* deregister (every other issued handle shows in a call on another target).
C15_Witness ==
    /\ last.op = "disposeAll"
    /\ last.calls # <<>>
    /\ \E t \in Targets :
           /\ DetachCalls(last.calls, t) = <<>>
           /\ deregistered # {}
           /\ \A d \in deregistered : d.target = t
           /\ Range(issued) = {d.id : d \in deregistered} \cup Range(Ids(last.calls))

\* The step is a call of the named operation of the legacy registry.
LegacyIsCall(op) == legacyLast'.op = op

\* C11: when [Symbol.dispose] of the legacy registry returns and no removal
\* threw, every registered listener has been detached and the map is empty.
C11_LegacyDisposeDeregistersAll ==
    (legacyLast.op = "dispose"
        /\ \A i \in DOMAIN legacyLast.calls : legacyLast.calls[i].ok)
    => (legacyEvents = <<>> /\ \A t \in Targets : legacyAttached[t] = {})

\* C12: the legacy deregister throws when the target is not tracked, when the
\* event name has no entry for the target, or when the callback is not in the
\* entry's list; it then calls no target and leaves the map unchanged.
C12_LegacyDeregisterThrowsOnMissing ==
    [][(LegacyIsCall("deregister")
            /\ LET t  == legacyLast'.target
                   e  == legacyLast'.eventName
                   cb == legacyLast'.callback
               IN \/ LegacyTargetIndex(legacyEvents, t) = 0
                  \/ LegacyEventIndex(LegacyTargetEvents(legacyEvents, t), e) = 0
                  \/ \A i \in DOMAIN LegacyCallbacks(legacyEvents, t, e) :
                         LegacyCallbacks(legacyEvents, t, e)[i] # cb)
        => (legacyLast'.threw /\ legacyLast'.calls = <<>>
                /\ legacyEvents' = legacyEvents
                /\ legacyAttached' = legacyAttached)]_vars

\* C12 witness: a deregister threw without calling the target, for a callback
\* that is not in the list the target holds under that event name.
C12_Witness ==
    /\ legacyLast.op = "deregister"
    /\ legacyLast.threw
    /\ legacyLast.calls = <<>>
    /\ LegacyCallbacks(legacyEvents, legacyLast.target, legacyLast.eventName) # <<>>
    /\ FindIndex(LegacyCallbacks(legacyEvents, legacyLast.target, legacyLast.eventName),
                 legacyLast.callback) = 0

====
